---- MODULE Spec2Model ----
(***************************************************************************)
(* The synchronisation engine of the ERPNext FastAPI bridge: the local     *)
(* "issues" collection, the remote ERPNext Issue resource, the submit /    *)
(* update / delete handlers and the three outbound passes                  *)
(* (sync_pending_issues_task of main.py, routes/issues.py and              *)
(* services/sync_service.py).  Every "await" of a handler is a point where *)
(* the other handlers may run, so each handler is cut into one action per  *)
(* awaited store operation or remote call.                                 *)
(***************************************************************************)
EXTENDS Integers, Sequences, FiniteSets, TLC

VARIABLES
    store,      \* the issues collection: local id (_id) -> document
    nextId,     \* the next _id insert_one hands out (ids are never reused)
    remote,     \* the remote Issue resource: name -> remote document
    nextName,   \* the next name the remote endpoint assigns on a create
    sub,        \* the submit_issue call in flight, if any
    passes,     \* the outbound passes: one slot per trigger
    lastReq,    \* the last create/update request sent to the remote endpoint
    conf,       \* per local id, the field values the remote last confirmed
    resp,       \* the last response a handler gave to its caller
    scen,       \* the remote behaviour: per local id the outcome of a push
    ops,        \* the number of handler invocations started so far
    inb,        \* the inbound pass in flight, if any
    upd         \* the update_local_issue call in flight, if any

vars == <<store, nextId, remote, nextName, sub, passes, lastReq, conf, resp, scen, ops, inb,
          upd>>

----------------------------------------------------------------------------
(* Bounds of the model *)

MaxRecs == 3
MaxRemote == 3
MaxSubmits == 1
MaxOps == 3
Runs == 2

(* Program constants *)

NoName == 0

LocalIds == 1..MaxRecs

Subjects == {"s1", "s2"}
Originators == {"u1"}
Unset == "unset"

Triggers == {"timer", "manual"}
Impls == {"main", "routes", "service"}
\* What a remote call can come to: a 2xx answer with the created name
\* ("ok") or without it ("noname"), a 4xx/5xx answer (HTTPStatusError), no
\* answer (RequestError), or any other exception raised in the try block.
Outcomes == {"ok", "noname", "rejected", "unreachable", "error"}
Success == {"ok", "noname"}

----------------------------------------------------------------------------
(* Pure helpers *)

\* str.capitalize(): first character upper case, the rest lower case.
Capitalize(s) ==
    CASE s = "open" -> "Open"
      [] s = "Open" -> "Open"
      [] s = "closed" -> "Closed"
      [] s = "CLOSED" -> "Closed"
      [] OTHER -> s

\* IssueEntry(...).dict(): every field of the model, the unset ones with
\* their defaults (status "Open", name None, synced False, synced_at None).
IssueEntry_dict(inp) ==
    [subject   |-> inp.subject,
     raised_by |-> inp.raised_by,
     status    |-> IF inp.status = Unset THEN "Open" ELSE inp.status,
     name      |-> IF "name" \in DOMAIN inp THEN inp.name ELSE NoName,
     synced    |-> FALSE,
     synced_at |-> "null"]

\* The keys of IssueEntry.dict() plus created_at, which submit_issue sends
\* unfiltered as the request body.
SubmitBodyKeys ==
    {"subject", "raised_by", "status", "id", "name", "created_at", "synced", "synced_at"}

\* A status the store holds as null (None): the inbound pass writes it when
\* the remote returns the field as JSON null.
Null == "null"

\* issue["status"].capitalize() (main.py) and
\* issue_data.get("status", "Open").capitalize() (erp_service.py) raise
\* AttributeError on a document whose status is None.
CapitalizeRaises(issue) == issue.status = Null

\* The payload the pass of main.py builds: status capitalized when the key
\* is present (it always is for documents this program writes).  It is
\* built before the try block of the loop; where CapitalizeRaises holds
\* there is no payload and the exception leaves the loop (sync_abort).
main_issue_data_for_erp(issue) ==
    [subject   |-> issue.subject,
     raised_by |-> issue.raised_by,
     status    |-> Capitalize(issue.status)]

\* The payload the pass of routes/issues.py builds:
\* issue["status"].capitalize() if issue.get("status") else "Open".
routes_issue_data_for_erp(issue) ==
    [subject   |-> issue.subject,
     raised_by |-> issue.raised_by,
     status    |-> IF issue.status = Null THEN "Open"
                   ELSE Capitalize(issue.status)]

\* erp_service.submit_issue_to_erp: the payload, and for an update the name
\* added to the body as well as to the URL.  Where CapitalizeRaises holds
\* there is no payload: the exception is raised inside the try block of
\* the pass before anything is sent.
erp_payload(issue) ==
    [subject   |-> issue.subject,
     raised_by |-> issue.raised_by,
     status    |-> Capitalize(issue.status)]

NoReq == [method |-> "NONE", target |-> NoName, keys |-> {}, body |-> <<>>,
          by |-> "none", rid |-> 0, recname |-> NoName, outcome |-> "none"]

\* The request a pass sends for one pending document, per implementation.
\* main.py and routes/issues.py always POST to the base URL;
\* sync_service.py PUTs to URL/name when the document has a name.
PassRequest(impl, p, id, issue) ==
    IF impl = "service" /\ issue.name # NoName
    THEN [method |-> "PUT", target |-> issue.name,
          keys |-> {"subject", "raised_by", "status", "name"},
          body |-> erp_payload(issue),
          by |-> p, rid |-> id, recname |-> issue.name]
    ELSE [method |-> "POST", target |-> NoName,
          keys |-> {"subject", "raised_by", "status"},
          body |-> IF impl = "service" THEN erp_payload(issue)
                   ELSE IF impl = "routes" THEN routes_issue_data_for_erp(issue)
                   ELSE main_issue_data_for_erp(issue),
          by |-> p, rid |-> id, recname |-> issue.name]

\* find({"synced": False}).to_list(length=None): every pending document,
\* in the collection's natural (insertion) order.
RECURSIVE PendingFrom(_, _)
PendingFrom(st, i) ==
    IF \A j \in DOMAIN st : j < i THEN <<>>
    ELSE IF i \in DOMAIN st /\ ~st[i].synced
         THEN <<[id |-> i, doc |-> st[i]]>> \o PendingFrom(st, i + 1)
         ELSE PendingFrom(st, i + 1)

find_pending(st) == PendingFrom(st, 1)

Restrict(f, S) == [x \in S |-> f[x]]

IdlePass == [pc |-> "idle", impl |-> "main", snap |-> <<>>, count |-> 0,
             tried |-> 0, name |-> NoName]

\* A request together with the answer the remote endpoint gave to it.
Sent(req, o) ==
    [method |-> req.method, target |-> req.target, keys |-> req.keys,
     body |-> req.body, by |-> req.by, rid |-> req.rid,
     recname |-> req.recname, outcome |-> o]

\* The outcome of a remote call that failed before anything was sent: the
\* configuration check of erp_service raised, or the URL is empty and the
\* HTTP client refused it.
Unsent == "unsent"

NoSub == [pc |-> "idle"]
NoInb == [pc |-> "idle"]
NoUpd == [pc |-> "idle"]
NoResp == [op |-> "none"]

----------------------------------------------------------------------------
(* The remote endpoint *)

\* The effect of a request on the remote resource when it answers 2xx.
RemoteApply(req, via) ==
    IF req.method = "PUT"
    THEN [remote EXCEPT ![req.target] =
              [subject |-> req.body.subject, raised_by |-> req.body.raised_by,
               status |-> req.body.status, src |-> @.src, via |-> @.via]]
    ELSE remote @@ (nextName :>
              [subject |-> req.body.subject, raised_by |-> req.body.raised_by,
               status |-> req.body.status, src |-> req.rid, via |-> via])

\* The outcomes the remote endpoint can give to a request: a create can
\* succeed while the remote still has a free name (the model's bound), an
\* update only for a name the remote knows; any request can fail.
CanSucceed(req) ==
    IF req.method = "PUT" THEN req.target \in DOMAIN remote
    ELSE nextName <= MaxRemote

----------------------------------------------------------------------------
(* submit_issue (main.py, routes/issues.py): POST to the remote endpoint,  *)
(* then insert_one into the local collection.                              *)

SubmitRequest(inp) ==
    [method |-> "POST", target |-> NoName, keys |-> SubmitBodyKeys,
     body |-> [subject   |-> IssueEntry_dict(inp).subject,
               raised_by |-> IssueEntry_dict(inp).raised_by,
               status    |-> IssueEntry_dict(inp).status],
     by |-> "submit", rid |-> 0, recname |-> NoName]

SubmitSynced_always(o) == TRUE

\* synced_status after the try/except: True only when raise_for_status
\* passed; every except branch sets False.
SubmitSynced(o) == o \in Success

\* First await of submit_issue: client.post(...).
submit_issue_post(inp, o) ==
    /\ sub.pc = "idle"
    /\ nextId <= MaxSubmits
    /\ o \in Success => CanSucceed(SubmitRequest(inp))
    /\ sub' = [pc |-> "posted", data |-> IssueEntry_dict(inp), outcome |-> o,
               body |-> SubmitRequest(inp).body,
               returned |-> IF o = "ok" THEN nextName ELSE NoName]
    /\ lastReq' = IF o = Unsent THEN lastReq ELSE Sent(SubmitRequest(inp), o)
    /\ IF o \in Success
       THEN /\ remote' = RemoteApply(SubmitRequest(inp), "submit")
            /\ nextName' = nextName + 1
       ELSE UNCHANGED <<remote, nextName>>
    /\ UNCHANGED <<store, nextId, passes, conf, resp, scen>>
    /\ UNCHANGED upd

\* Second await of submit_issue: insert_one(issue_data), then the response.
submit_issue_insert ==
    /\ sub.pc = "posted"
    /\ LET s  == SubmitSynced(sub.outcome)
           doc == [sub.data EXCEPT !.synced = s,
                                   !.synced_at = IF s THEN "ts" ELSE "null"]
       IN /\ store' = store @@ (nextId :> doc)
          /\ resp' = [op |-> "submit", code |-> 200, status |-> "stored",
                      synced |-> doc.synced]
    /\ conf' = IF sub.outcome \in Success
               THEN conf @@ (nextId :> sub.body) ELSE conf
    /\ nextId' = nextId + 1
    /\ sub' = NoSub
    /\ UNCHANGED <<remote, nextName, passes, lastReq, scen>>
    /\ UNCHANGED upd

----------------------------------------------------------------------------
(* update_local_issue and delete_local_issue (main.py, routes/issues.py)   *)

ApplyUpdate_diff(doc, inp) ==
    IF /\ inp.subject = doc.subject
       /\ inp.raised_by = doc.raised_by
       /\ inp.status \in {Unset, doc.status}
    THEN doc
    ELSE [doc EXCEPT !.subject   = inp.subject,
                     !.raised_by = inp.raised_by,
                     !.status    = IF inp.status = Unset THEN @ ELSE inp.status,
                     !.synced    = FALSE,
                     !.synced_at = "null"]

ApplyUpdate_keepsStamp(doc, inp) ==
    [doc EXCEPT !.subject   = inp.subject,
                !.raised_by = inp.raised_by,
                !.status    = IF inp.status = Unset THEN @ ELSE inp.status,
                !.name      = IF "name" \in DOMAIN inp THEN inp.name ELSE @,
                !.synced    = FALSE]

\* update_data = updated_issue.dict(exclude_unset=True): subject and
\* raised_by are required fields, status is there when the caller sent it;
\* the presence of any of them resets synced and synced_at.  The request
\* model is IssueEntry, so a name the caller sent is in update_data too.
ApplyUpdate(doc, inp) ==
    [doc EXCEPT !.subject   = inp.subject,
                !.raised_by = inp.raised_by,
                !.status    = IF inp.status = Unset THEN @ ELSE inp.status,
                !.name      = IF "name" \in DOMAIN inp THEN inp.name ELSE @,
                !.synced    = FALSE,
                !.synced_at = "null"]

update_one_upsert(st, id, inp) ==
    IF id \in DOMAIN st THEN [st EXCEPT ![id] = ApplyUpdate(@, inp)]
    ELSE st @@ (id :> ApplyUpdate(IssueEntry_dict(inp), inp))

\* update_one({"_id": object_id}, {"$set": update_data}): no upsert, a
\* filter that matches nothing changes nothing.
update_one(st, id, inp) ==
    IF id \in DOMAIN st THEN [st EXCEPT ![id] = ApplyUpdate(@, inp)] ELSE st

\* An item_id that ObjectId() does not accept.
NotAnId == 0

\* update_local_issue up to its first await: the 400 for an id that is not
\* an ObjectId, update_one, and the 404 when matched_count is 0.
update_local_issue(id, inp) ==
    /\ upd.pc = "idle"
    /\ IF id = NotAnId
       THEN /\ resp' = [op |-> "update", code |-> 400, id |-> id]
            /\ UNCHANGED <<store, upd>>
       ELSE /\ store' = update_one(store, id, inp)
            /\ IF id \in DOMAIN store
               THEN /\ upd' = [pc |-> "updated", id |-> id]
                    /\ resp' = resp
               ELSE /\ upd' = upd
                    /\ resp' = [op |-> "update", code |-> 404, id |-> id]
    /\ UNCHANGED <<nextId, remote, nextName, sub, passes, lastReq, conf, scen>>

\* Second await of update_local_issue: find_one for the response.  When
\* the document has been deleted since update_one, find_one returns None
\* and updated_document["_id"] raises TypeError: the caller gets a 500.
update_local_issue_find ==
    /\ upd.pc = "updated"
    /\ resp' = [op |-> "update",
                code |-> IF upd.id \in DOMAIN store THEN 200 ELSE 500,
                id |-> upd.id]
    /\ upd' = NoUpd
    /\ UNCHANGED <<store, nextId, remote, nextName, sub, passes, lastReq,
                   conf, scen>>

\* create_local_issue (main.py, routes/issues.py): insert_one of the
\* request's fields with synced False and synced_at None, no remote call.
create_local_issue(inp) ==
    /\ store' = store @@ (nextId :> IssueEntry_dict(inp))
    /\ nextId' = nextId + 1
    /\ resp' = [op |-> "create", code |-> 200, id |-> nextId]
    /\ UNCHANGED <<remote, nextName, sub, passes, lastReq, conf, scen, upd>>

\* delete_issues (main.py, routes/issues.py): delete_many({}).
delete_issues ==
    /\ store' = <<>>
    /\ conf' = <<>>
    /\ resp' = [op |-> "delete_all", code |-> 200,
                deleted |-> Cardinality(DOMAIN store)]
    /\ scen' = IF scen.mode = "mix"
               THEN [scen EXCEPT !.gone =
                        @ \cup ({store[i].name : i \in DOMAIN store} \ {NoName})]
               ELSE scen
    /\ UNCHANGED <<nextId, remote, nextName, sub, passes, lastReq, upd>>

\* delete_local_issue: the 400 for an id that is not an ObjectId,
\* delete_one, and the 404 when deleted_count is 0.
delete_local_issue(id) ==
    /\ IF id = NotAnId
       THEN /\ UNCHANGED <<store, conf, scen>>
            /\ resp' = [op |-> "delete", code |-> 400, id |-> id]
       ELSE IF id \in DOMAIN store
       THEN /\ store' = Restrict(store, DOMAIN store \ {id})
            /\ conf' = Restrict(conf, DOMAIN conf \ {id})
            /\ resp' = [op |-> "delete", code |-> 200, id |-> id]
            /\ scen' = IF scen.mode = "mix"
                       THEN [scen EXCEPT !.gone = @ \cup ({store[id].name} \ {NoName})]
                       ELSE scen
       ELSE /\ UNCHANGED <<store, conf, scen>>
            /\ resp' = [op |-> "delete", code |-> 404, id |-> id]
    /\ UNCHANGED <<nextId, remote, nextName, sub, passes, lastReq>>
    /\ UNCHANGED upd

----------------------------------------------------------------------------
(* sync_pending_issues_task: the outbound pass, in its three versions      *)

\* find({"synced": False}).to_list(length=None)
sync_scan(p, impl) ==
    /\ passes[p].pc = "idle"
    /\ passes' = [passes EXCEPT ![p] =
           [pc |-> "loop", impl |-> impl, snap |-> find_pending(store),
            count |-> 0, tried |-> 0, name |-> NoName]]
    /\ UNCHANGED <<store, nextId, remote, nextName, sub, lastReq, conf, resp, scen>>
    /\ UNCHANGED upd

AfterPush_unreachableWrites(impl, req, o) ==
    IF o \in {"rejected", "error"} THEN "skip"
    ELSE IF impl = "service" /\ req.method = "POST" /\ o = "noname" THEN "skip"
    ELSE "write"

\* What the loop body does once the remote call has returned or raised:
\* "write" goes on to update_one, "skip" goes to the next document.
\* Only sync_service.py reads the response, and skips a create whose
\* response has no name.
AfterPush(impl, req, o) ==
    IF o \notin Success THEN "skip"
    ELSE IF impl = "service" /\ req.method = "POST" /\ o = "noname" THEN "skip"
    ELSE "write"

\* erp_issue_name as the loop body holds it after the remote call.
NameAfterPush(impl, req, o) ==
    IF impl # "service" THEN NoName
    ELSE IF req.method = "PUT" THEN req.target
    ELSE IF o = "ok" THEN nextName ELSE NoName

\* The pass of main.py at a pending document whose status is None: the
\* payload is built before the try block, so the AttributeError leaves the
\* loop and the pass ends without returning a count.  The scheduler logs
\* the failed job; /sync-pending answers 500.
sync_abort(p) ==
    /\ passes[p].pc = "loop"
    /\ passes[p].snap # <<>>
    /\ passes[p].impl = "main"
    /\ CapitalizeRaises(Head(passes[p].snap).doc)
    /\ resp' = [op |-> "sync", code |-> 500, count |-> passes[p].count,
                tried |-> passes[p].tried]
    /\ passes' = [passes EXCEPT ![p] = IdlePass]
    /\ UNCHANGED <<store, nextId, remote, nextName, sub, lastReq, conf, scen>>
    /\ UNCHANGED upd

\* The remote call of the loop body for the head of the pending list.  In
\* the pass of sync_service.py a status of None raises inside the try
\* block before anything is sent, whatever the remote would answer.
sync_push(p, o) ==
    /\ passes[p].pc = "loop"
    /\ passes[p].snap # <<>>
    /\ ~(passes[p].impl = "main" /\ CapitalizeRaises(Head(passes[p].snap).doc))
    /\ LET h   == Head(passes[p].snap)
           req == PassRequest(passes[p].impl, p, h.id, h.doc)
           eo  == IF passes[p].impl = "service" /\ CapitalizeRaises(h.doc)
                  THEN Unsent ELSE o
       IN /\ eo \in Success => CanSucceed(req)
          /\ lastReq' = IF eo = Unsent THEN lastReq ELSE Sent(req, eo)
          /\ IF eo \in Success
             THEN /\ remote' = RemoteApply(req, "pass")
                  /\ nextName' = IF req.method = "POST" THEN nextName + 1 ELSE nextName
                  /\ conf' = IF h.id \in DOMAIN store
                             THEN (h.id :> req.body) @@ conf ELSE conf
             ELSE UNCHANGED <<remote, nextName, conf>>
          /\ passes' = [passes EXCEPT ![p] =
                IF AfterPush(@.impl, req, eo) = "write"
                THEN [@ EXCEPT !.pc = "sent", !.tried = @ + 1,
                               !.name = NameAfterPush(passes[p].impl, req, eo)]
                ELSE [@ EXCEPT !.snap = Tail(@), !.tried = @ + 1]]
    /\ UNCHANGED <<store, nextId, sub, resp, scen>>
    /\ UNCHANGED upd

SyncedSet_keepsPending(impl, doc, name) == doc

\* The $set of the loop body's update_one, per implementation: only
\* sync_service.py writes the name.
SyncedSet(impl, doc, name) ==
    IF impl = "service"
    THEN [doc EXCEPT !.synced = TRUE, !.synced_at = "ts", !.name = name]
    ELSE [doc EXCEPT !.synced = TRUE, !.synced_at = "ts"]

\* update_one({"_id": issue_id}, {"$set": ...}); synced_count += 1
sync_writeback(p) ==
    /\ passes[p].pc = "sent"
    /\ LET h == Head(passes[p].snap)
       IN store' = IF h.id \in DOMAIN store
                   THEN [store EXCEPT ![h.id] =
                            SyncedSet(passes[p].impl, @, passes[p].name)]
                   ELSE store
    /\ passes' = [passes EXCEPT ![p] =
           [@ EXCEPT !.pc = "loop", !.snap = Tail(@), !.count = @ + 1,
                     !.name = NoName]]
    /\ UNCHANGED <<nextId, remote, nextName, sub, lastReq, conf, resp, scen>>
    /\ UNCHANGED upd

\* return synced_count
sync_return(p) ==
    /\ passes[p].pc = "loop"
    /\ passes[p].snap = <<>>
    /\ resp' = [op |-> "sync", code |-> 200, count |-> passes[p].count,
                tried |-> passes[p].tried]
    /\ passes' = [passes EXCEPT ![p] = IdlePass]
    /\ scen' = IF scen.mode = "pass"
               THEN [scen EXCEPT !.log = Append(@, passes[p].count)]
               ELSE scen
    /\ UNCHANGED <<store, nextId, remote, nextName, sub, lastReq, conf>>
    /\ UNCHANGED upd

----------------------------------------------------------------------------
(* The whole program: callers, the timer and the remote endpoint           *)

SubmitInputs ==
    [subject : {"s1"}, raised_by : Originators, status : {"open", Unset}]

UpdateInputs ==
    [subject : Subjects, raised_by : Originators, status : {"open", Unset}]

\* scheduler.add_job(sync_pending_issues_task, ...) in main.py runs the
\* pass of main.py, at most one instance at a time (APScheduler's default
\* max_instances); the manual trigger awaits the pass of its own module, and
\* the service layer's pass is called directly.
TriggerImpls(p) == IF p = "timer" THEN {"main"} ELSE Impls

FreeScen == [mode |-> "free", fate |-> [i \in LocalIds |-> "any"],
             impl |-> "any", named |-> {}, log |-> <<>>]

Init ==
    /\ store = <<>>
    /\ nextId = 1
    /\ remote = <<>>
    /\ nextName = 1
    /\ sub = NoSub
    /\ passes = [p \in Triggers |-> IdlePass]
    /\ lastReq = NoReq
    /\ conf = <<>>
    /\ resp = NoResp
    /\ scen = FreeScen
    /\ ops = 0
    /\ inb = NoInb
    /\ upd = NoUpd

\* The ids a caller addresses: those insert_one has handed out or will,
\* one that it never does, and one that is not an ObjectId.
TargetIds == {NotAnId} \cup 1..(MaxSubmits + 1)

\* A handler invocation starts while the budget of invocations lasts.
Start == ops < MaxOps /\ ops' = ops + 1 /\ UNCHANGED inb

SubmitPost ==
    /\ Start
    /\ \E inp \in SubmitInputs, o \in Outcomes : submit_issue_post(inp, o)

SubmitInsert == submit_issue_insert /\ UNCHANGED <<ops, inb>>

Update ==
    /\ Start
    /\ \E id \in TargetIds, inp \in UpdateInputs : update_local_issue(id, inp)

UpdateRead == update_local_issue_find /\ UNCHANGED <<ops, inb>>

\* insert_one hands out ids while the model's bound on documents lasts.
Create ==
    /\ Start
    /\ nextId <= MaxSubmits
    /\ \E inp \in SubmitInputs : create_local_issue(inp)

Delete ==
    /\ Start
    /\ \E id \in TargetIds : delete_local_issue(id)

DeleteAll == Start /\ delete_issues

Scan ==
    /\ Start
    /\ \E p \in Triggers : \E impl \in TriggerImpls(p) : sync_scan(p, impl)

Push == UNCHANGED <<ops, inb>> /\ \E p \in Triggers, o \in Outcomes : sync_push(p, o)

WriteBack == UNCHANGED <<ops, inb>> /\ \E p \in Triggers : sync_writeback(p)

Return == UNCHANGED <<ops, inb>> /\ \E p \in Triggers : sync_return(p)

Next ==
    \/ SubmitPost
    \/ SubmitInsert
    \/ Create
    \/ Update
    \/ UpdateRead
    \/ Delete
    \/ DeleteAll
    \/ Scan
    \/ Push
    \/ WriteBack
    \/ Return

Spec == Init /\ [][Next]_vars

----------------------------------------------------------------------------
(* One outbound pass after the other over a given pending set, with the    *)
(* remote's answer to the push of each document fixed beforehand.          *)

PassFates == {"ok", "rejected", "unreachable", "error"}

\* A pending document; one that was pushed before carries the name of its
\* remote counterpart (the names below 0 are the ones the remote assigned
\* before the pass).
PendingDoc(i, named) ==
    [subject |-> "s1", raised_by |-> "u1", status |-> "open",
     name |-> IF i \in named THEN 0 - i ELSE NoName,
     synced |-> FALSE, synced_at |-> "null"]

RemoteDoc(i) ==
    [subject |-> "s1", raised_by |-> "u1", status |-> "Open",
     src |-> i, via |-> "pass"]

\* Among the documents that have a name, the ones in nulls were pulled
\* with a null status and then edited by a caller who sent no status.
InitPass ==
    \E n \in 0..MaxRecs :
      \E named \in SUBSET (1..n) :
       \E nulls \in SUBSET named :
        \E fate \in [1..n -> PassFates] :
          \E impl \in Impls :
            /\ store = [i \in 1..n |->
                          IF i \in nulls
                          THEN [PendingDoc(i, named) EXCEPT !.status = Null]
                          ELSE PendingDoc(i, named)]
            /\ nextId = n + 1
            /\ remote = [k \in {0 - i : i \in named} |-> RemoteDoc(0 - k)]
            /\ nextName = 1
            /\ sub = NoSub
            /\ passes = [p \in Triggers |-> IdlePass]
            /\ lastReq = NoReq
            /\ conf = <<>>
            /\ resp = NoResp
            /\ scen = [mode |-> "pass",
                       fate |-> [i \in LocalIds |-> IF i <= n THEN fate[i] ELSE "ok"],
                       impl |-> impl, named |-> named, log |-> <<>>]
            /\ ops = 0
            /\ inb = NoInb
            /\ upd = NoUpd

PassIdle == \A p \in Triggers : passes[p].pc = "idle"

PassScan ==
    /\ PassIdle
    /\ Len(scen.log) < Runs
    /\ sync_scan("manual", scen.impl)
    /\ UNCHANGED <<ops, inb>>

PassPush ==
    /\ passes["manual"].pc = "loop"
    /\ passes["manual"].snap # <<>>
    /\ sync_push("manual", scen.fate[Head(passes["manual"].snap).id])
    /\ UNCHANGED <<ops, inb>>

PassWriteBack == sync_writeback("manual") /\ UNCHANGED <<ops, inb>>

PassReturn == sync_return("manual") /\ UNCHANGED <<ops, inb>>

PassAbort == sync_abort("manual") /\ UNCHANGED <<ops, inb>>

NextPass ==
    \/ PassScan
    \/ PassPush
    \/ PassWriteBack
    \/ PassReturn
    \/ PassAbort

SpecPass == InitPass /\ [][NextPass]_vars

----------------------------------------------------------------------------
(* Properties *)

Failures == Outcomes \ Success

\* The field values a document would be pushed with, the status in the
\* form the remote endpoint stores.
Pushed(d) == [subject |-> d.subject, raised_by |-> d.raised_by,
              status |-> Capitalize(d.status)]

\* C1: when the remote create of a submit fails (unreachable, rejected or
\* any other error), the step that completes the submit inserts the
\* submitted document with synced = false and answers 200 "stored".
SubmitStoresUnsyncedOnFailure ==
    [][(sub.pc = "posted" /\ sub'.pc = "idle" /\ sub.outcome \in Failures)
        => /\ nextId \in DOMAIN store'
           /\ nextId \notin DOMAIN store
           /\ store'[nextId].subject = sub.data.subject
           /\ store'[nextId].raised_by = sub.data.raised_by
           /\ store'[nextId].status = sub.data.status
           /\ store'[nextId].synced = FALSE
           /\ resp' = [op |-> "submit", code |-> 200, status |-> "stored",
                       synced |-> FALSE]]_vars

\* C1 witness: a submit whose create the remote rejected or never received
\* has returned, and its document is in the store, pending.
SubmitFailedAndStored ==
    /\ resp.op = "submit"
    /\ resp.synced = FALSE
    /\ lastReq.by = "submit"
    /\ lastReq.outcome \in Failures
    /\ sub.pc = "idle"
    /\ 1 \in DOMAIN store
    /\ ~store[1].synced

\* C2: whenever the remote create of a submit has been issued, the
\* submitted document is already in the local store, pending.
SubmitWritesAhead ==
    sub.pc = "posted" =>
        \E i \in DOMAIN store :
            /\ store[i].subject = sub.data.subject
            /\ store[i].raised_by = sub.data.raised_by
            /\ store[i].status = sub.data.status
            /\ ~store[i].synced

\* C3: a local document with synced = true has the subject, originator and
\* status the remote endpoint last confirmed for it.
SyncedMatchesConfirmed ==
    \A i \in DOMAIN store :
        store[i].synced =>
            /\ i \in DOMAIN conf
            /\ Pushed(store[i]) = Pushed(conf[i])

\* C4: every local document without a remote name has synced = false.
UnnamedIsUnsynced ==
    \A i \in DOMAIN store : store[i].name = NoName => ~store[i].synced

\* C5: at most one outbound pass is between its scan and its return.
AtMostOnePass ==
    Cardinality({p \in Triggers : passes[p].pc # "idle"}) <= 1

\* C6: no local document is delivered to the remote endpoint by more than
\* one successful create of an outbound pass.
NoDoubleDelivery ==
    \A i \in LocalIds :
        Cardinality({n \in DOMAIN remote :
                        remote[n].src = i /\ remote[n].via = "pass"}) <= 1

\* C7: N pending documents without a name and a remote that accepts every
\* request: the first pass returns N and leaves all N synced with a name,
\* the passes after it return 0.
AcceptingPassSyncsAll ==
    (/\ scen.mode = "pass"
     /\ scen.named = {}
     /\ \A i \in DOMAIN store : scen.fate[i] = "ok"
     /\ Len(scen.log) >= 1)
    => /\ scen.log[1] = Cardinality(DOMAIN store)
       /\ \A i \in DOMAIN store : store[i].synced /\ store[i].name # NoName
       /\ \A k \in 2..Len(scen.log) : scen.log[k] = 0

\* C8: with the remote failing the pushes of a subset of the pending set,
\* the first pass over any pending set is not aborted: it ends by returning,
\* has attempted every pending document, returns the number of documents
\* outside the subset and has marked exactly those synced.
FailureIsolation ==
    (scen.mode = "pass" /\ resp.op = "sync" /\ Len(scen.log) <= 1) =>
        /\ resp.code = 200
        /\ Len(scen.log) = 1
        /\ resp.tried = Cardinality(DOMAIN store)
        /\ resp.count = Cardinality({i \in DOMAIN store : scen.fate[i] = "ok"})
        /\ scen.log[1] = resp.count
        /\ \A i \in DOMAIN store : store[i].synced <=> scen.fate[i] = "ok"

\* C9: a pass pushes a pending document that has a name with an update
\* addressed to that name, and one without a name with a create.
PassUpdatesNamed ==
    lastReq.by \in Triggers =>
        IF lastReq.recname # NoName
        THEN lastReq.method = "PUT" /\ lastReq.target = lastReq.recname
        ELSE lastReq.method = "POST"

\* C10: the step in which the push of a document fails inside a pass leaves
\* the store as it is, and the pass goes on to the next document without
\* its write-back (the only step of a pass that writes the store).
FailedPushLeavesRecord ==
    [][\A p \in Triggers :
        (/\ passes[p].pc = "loop"
         /\ passes'[p].tried = passes[p].tried + 1
         /\ lastReq'.outcome \in Failures)
        => /\ store' = store
           /\ passes'[p].pc = "loop"
           /\ passes'[p].snap = Tail(passes[p].snap)
           /\ passes'[p].count = passes[p].count]_vars

\* C10 witness: the last push of a running pass failed, and the document it
\* was for is still in the store, pending, with no synced_at.
FailedPushSeen ==
    /\ lastReq.by \in Triggers
    /\ lastReq.outcome \in Failures
    /\ passes[lastReq.by].tried >= 1
    /\ lastReq.rid \in DOMAIN store
    /\ ~store[lastReq.rid].synced
    /\ store[lastReq.rid].synced_at = "null"

----------------------------------------------------------------------------
(* Properties of submit, update and delete *)

\* The step of update_local_issue addressed to id.
UpdateStep(id) ==
    /\ ops' = ops + 1
    /\ sub' = sub
    /\ passes' = passes
    /\ inb' = inb
    /\ upd.pc = "idle"
    /\ \/ upd'.pc = "updated" /\ upd'.id = id
       \/ upd' = upd /\ resp'.op = "update" /\ resp'.id = id

\* The step of delete_local_issue that removes document id.
DeleteStep(id) == id \in DOMAIN store /\ id \notin DOMAIN store'

\* The step in which pass p gets the remote's answer to a push.
PushStep(p) ==
    /\ passes[p].pc = "loop"
    /\ passes'[p].tried = passes[p].tried + 1

\* C11: when a create of a pass is answered 2xx without an identifier, the
\* pass writes nothing for that document, does not count it and goes on to
\* the next document.
NamelessCreateIsFailure ==
    [][\A p \in Triggers :
        (PushStep(p) /\ lastReq'.method = "POST" /\ lastReq'.outcome = "noname")
        => /\ store' = store
           /\ passes'[p].pc = "loop"
           /\ passes'[p].snap = Tail(passes[p].snap)
           /\ passes'[p].count = passes[p].count]_vars

\* C13: when the remote create of a submit succeeds, the inserted document
\* has synced = true, a synced_at and the name the remote returned.
SubmitSuccessStoresName ==
    [][(sub.pc = "posted" /\ sub'.pc = "idle" /\ sub.outcome = "ok")
        => /\ nextId \in DOMAIN store'
           /\ store'[nextId].synced
           /\ store'[nextId].synced_at # "null"
           /\ store'[nextId].name = sub.returned]_vars

\* C14: an update of an existing synced document (its request always has
\* subject and raised_by, whatever their values) leaves it with
\* synced = false and synced_at = null.
EditUnsyncs ==
    [][\A id \in LocalIds :
        (UpdateStep(id) /\ id \in DOMAIN store /\ store[id].synced)
        => /\ id \in DOMAIN store'
           /\ store'[id].synced = FALSE
           /\ store'[id].synced_at = "null"]_vars

\* C14 witness: an update has just left a document pending whose values
\* are the ones the remote last confirmed.
EditWithSameValuesSeen ==
    /\ resp.op = "update"
    /\ resp.code = 200
    /\ resp.id \in DOMAIN store
    /\ resp.id \in DOMAIN conf
    /\ ~store[resp.id].synced
    /\ store[resp.id].synced_at = "null"
    /\ Pushed(store[resp.id]) = Pushed(conf[resp.id])

\* C15: an update of a document that has a name sends one remote update to
\* that name, and the document is synced after the call exactly when the
\* remote accepted it.
UpdatePushesToRemote ==
    [][\A id \in LocalIds :
        (UpdateStep(id) /\ id \in DOMAIN store /\ store[id].name # NoName)
        => /\ lastReq'.by = "update"
           /\ lastReq'.method = "PUT"
           /\ lastReq'.target = store[id].name
           /\ store'[id].synced <=> lastReq'.outcome \in Success]_vars

\* C16: an update addressed to an id that is not in the store answers 404,
\* creates no document and leaves every document as it is.
UpdateOfMissingIsNotFound ==
    [][\A id \in LocalIds :
        (UpdateStep(id) /\ id \notin DOMAIN store)
        => /\ resp'.code = 404
           /\ store' = store]_vars

\* C16 witness: an update of an id the store does not have was answered
\* 404 while the store has a document.
MissingUpdateSeen ==
    /\ resp.op = "update"
    /\ resp.code = 404
    /\ resp.id \notin DOMAIN store
    /\ DOMAIN store # {}

\* C18: the delete of a document that has a name sends a remote delete for
\* that name; the delete of one without a name sends no remote request.
DeleteReachesRemote ==
    [][\A id \in LocalIds :
        DeleteStep(id)
        => IF store[id].name # NoName
           THEN lastReq'.method = "DELETE" /\ lastReq'.target = store[id].name
           ELSE lastReq' = lastReq]_vars

----------------------------------------------------------------------------
(* The local read and delete handlers next to the remote delete helper,    *)
(* over a given collection.                                                *)

CrudRecs == 2
CrudOps == 3

\* A stored document: pending or synced, with or without the name of a
\* remote counterpart.
StoredDoc(i, named, done) ==
    [subject |-> "s1", raised_by |-> "u1", status |-> "open",
     name |-> IF i \in named THEN 0 - i ELSE NoName,
     synced |-> i \in done,
     synced_at |-> IF i \in done THEN "ts" ELSE "null"]

\* not settings.ERP_API_URL or not settings.ERP_SID
Configured == scen.configured

InitCrud ==
    \E n \in 0..CrudRecs :
      \E named \in SUBSET (1..n), done \in SUBSET (1..n) :
        \E configured \in BOOLEAN :
            /\ store = [i \in 1..n |-> StoredDoc(i, named, done)]
            /\ nextId = n + 1
            /\ remote = [k \in {0 - i : i \in named} |-> RemoteDoc(0 - k)]
            /\ nextName = 1
            /\ sub = NoSub
            /\ passes = [p \in Triggers |-> IdlePass]
            /\ lastReq = NoReq
            /\ conf = <<>>
            /\ resp = NoResp
            /\ scen = [mode |-> "crud", configured |-> configured,
                       result |-> "none"]
            /\ ops = 0
            /\ inb = NoInb
            /\ upd = NoUpd

\* find_one({"_id": object_id}); 400 for an id that is not an ObjectId,
\* 404 when there is no such document.
get_issue_by_id(id) ==
    /\ resp' = IF id = NotAnId THEN [op |-> "get", code |-> 400]
               ELSE IF id \in DOMAIN store
               THEN [op |-> "get", code |-> 200, body |-> store[id]]
               ELSE [op |-> "get", code |-> 404]
    /\ UNCHANGED <<store, nextId, remote, nextName, sub, passes, lastReq,
                   conf, scen>>
    /\ UNCHANGED upd

\* find().to_list(length=100)
get_all_issues ==
    /\ resp' = [op |-> "list", code |-> 200, body |-> store]
    /\ UNCHANGED <<store, nextId, remote, nextName, sub, passes, lastReq,
                   conf, scen>>
    /\ UNCHANGED upd

get_unsynced_claiming ==
    /\ resp' = [op |-> "unsynced", code |-> 200,
                body |-> Restrict(store, {i \in DOMAIN store : ~store[i].synced})]
    /\ store' = [i \in DOMAIN store |->
                    [store[i] EXCEPT !.synced = TRUE, !.synced_at = "ts"]]
    /\ UNCHANGED <<nextId, remote, nextName, sub, passes, lastReq, conf, scen>>
    /\ UNCHANGED upd

\* find({"synced": False}).to_list(100)
get_unsynced ==
    /\ resp' = [op |-> "unsynced", code |-> 200,
                body |-> Restrict(store, {i \in DOMAIN store : ~store[i].synced})]
    /\ UNCHANGED <<store, nextId, remote, nextName, sub, passes, lastReq,
                   conf, scen>>
    /\ UNCHANGED upd

\* find({"synced": True}).to_list(100)
get_synced_issues ==
    /\ resp' = [op |-> "synced", code |-> 200,
                body |-> Restrict(store, {i \in DOMAIN store : store[i].synced})]
    /\ UNCHANGED <<store, nextId, remote, nextName, sub, passes, lastReq,
                   conf, scen>>
    /\ UNCHANGED upd

ReadOps == {"get", "list", "unsynced", "synced"}

\* The answers the remote endpoint can give to a delete.
DeleteOutcomes == {"ok", "rejected", "unreachable", "error"}

DeleteRequest(name) ==
    [method |-> "DELETE", target |-> name, keys |-> {}, body |-> <<>>,
     by |-> "erp_delete", rid |-> 0, recname |-> name]

DeleteResult_raising(o) ==
    CASE o = "ok" -> "true"
      [] o = "unreachable" -> "raised"
      [] OTHER -> "false"

\* return True after raise_for_status(); every except branch falls through
\* to return False.
DeleteResult(o) == IF o = "ok" THEN "true" ELSE "false"

\* erp_service.delete_issue_in_erp(erp_issue_name)
delete_issue_in_erp(name, o) ==
    /\ o = "ok" => name \in DOMAIN remote
    /\ IF Configured
       THEN /\ lastReq' = Sent(DeleteRequest(name), o)
            /\ remote' = IF o = "ok"
                         THEN Restrict(remote, DOMAIN remote \ {name})
                         ELSE remote
            /\ scen' = [scen EXCEPT !.result = DeleteResult(o)]
       ELSE /\ UNCHANGED <<lastReq, remote>>
            /\ scen' = [scen EXCEPT !.result = "false"]
    /\ resp' = [op |-> "erp_delete", name |-> name]
    /\ UNCHANGED <<store, nextId, nextName, sub, passes, conf>>
    /\ UNCHANGED upd

RemoteNamesBefore == {0 - i : i \in 1..CrudRecs}

\* A handler invocation starts while the budget of invocations lasts.
CrudStart == ops < CrudOps /\ ops' = ops + 1 /\ UNCHANGED inb

CrudGet == CrudStart /\ \E id \in 0..nextId : get_issue_by_id(id)

CrudList == CrudStart /\ get_all_issues

CrudUnsynced == CrudStart /\ get_unsynced

CrudSynced == CrudStart /\ get_synced_issues

CrudDelete == CrudStart /\ \E id \in 0..nextId : delete_local_issue(id)

CrudErpDelete ==
    /\ CrudStart
    /\ \E name \in RemoteNamesBefore, o \in DeleteOutcomes :
          delete_issue_in_erp(name, o)

NextCrud ==
    \/ CrudGet
    \/ CrudList
    \/ CrudUnsynced
    \/ CrudSynced
    \/ CrudDelete
    \/ CrudErpDelete

SpecCrud == InitCrud /\ [][NextCrud]_vars

\* The step of delete_local_issue addressed to id.
DeleteCall(id) ==
    /\ ops' = ops + 1
    /\ resp'.op = "delete"
    /\ resp'.id = id

\* A step of one of the read handlers.
ReadStep ==
    /\ ops' = ops + 1
    /\ resp'.op \in ReadOps

\* C17: the delete of an existing local document removes it, leaves the
\* others alone and answers 200, whatever the remote delete helper has
\* answered; the helper answers false for every failure and never raises.
LocalDeleteIndependentOfRemote ==
    /\ [][\A id \in LocalIds :
            (DeleteCall(id) /\ id \in DOMAIN store)
            => /\ resp'.code = 200
               /\ store' = Restrict(store, DOMAIN store \ {id})]_vars
    /\ [](/\ scen.result \in {"none", "true", "false"}
          /\ (lastReq.method = "DELETE" /\ lastReq.outcome # "ok")
                => scen.result = "false"
          /\ (scen.result # "none" /\ ~Configured) => scen.result = "false")

\* C17 witness: a local delete has been answered 200 after the remote
\* delete helper answered false to an unreachable remote.
LocalDeleteAfterFailedRemoteDelete ==
    /\ resp.op = "delete"
    /\ resp.code = 200
    /\ resp.id \notin DOMAIN store
    /\ lastReq.method = "DELETE"
    /\ lastReq.outcome = "unreachable"
    /\ scen.result = "false"

\* C19: a step of get_issue_by_id, get_all_issues, get_unsynced or
\* get_synced_issues sends no remote request and leaves the local
\* collection and the remote resource as they are.
ReadsAreReadOnly ==
    [][ReadStep => /\ store' = store
                   /\ remote' = remote
                   /\ lastReq' = lastReq]_vars

\* C19 witness: the unsynced list has been answered with a pending
\* document that is still pending in the collection.
UnsyncedListSeen ==
    /\ resp.op = "unsynced"
    /\ resp.code = 200
    /\ \E i \in DOMAIN resp.body : i \in DOMAIN store /\ ~store[i].synced

----------------------------------------------------------------------------
(* The scheduled pass firing for ever over documents nobody edits or       *)
(* deletes, against a remote that fails at first and accepts every request *)
(* from some moment on.                                                    *)

LiveRecs == 2

InitLive ==
    \E n \in 1..LiveRecs :
      \E named \in SUBSET (1..n) :
        \E impl \in TriggerImpls("timer") :
            /\ store = [i \in 1..n |-> PendingDoc(i, named)]
            /\ nextId = n + 1
            /\ remote = [k \in {0 - i : i \in named} |-> RemoteDoc(0 - k)]
            /\ nextName = 1
            /\ sub = NoSub
            /\ passes = [p \in Triggers |-> IdlePass]
            /\ lastReq = NoReq
            /\ conf = <<>>
            /\ resp = NoResp
            /\ scen = [mode |-> "live", up |-> FALSE, impl |-> impl,
                       failed |-> 0]
            /\ ops = 0
            /\ inb = NoInb
            /\ upd = NoUpd

\* scheduler.add_job(sync_pending_issues_task, IntervalTrigger(minutes=5)):
\* the job runs again whenever its previous run has returned.
LiveScan == sync_scan("timer", scen.impl) /\ UNCHANGED <<ops, inb>>

\* The remote's answers: some failure while it is down, acceptance after.
LiveOutcomes == IF scen.up THEN {"ok"} ELSE Failures

LivePush == UNCHANGED <<ops, inb>> /\ \E o \in LiveOutcomes : sync_push("timer", o)

LiveWriteBack == sync_writeback("timer") /\ UNCHANGED <<ops, inb>>

LiveReturn == sync_return("timer") /\ UNCHANGED <<ops, inb>>

\* The remote comes back, for good, after a push of the pass has failed;
\* the document of that push is remembered.
Recover ==
    /\ ~scen.up
    /\ lastReq.outcome \in Failures
    /\ scen' = [scen EXCEPT !.up = TRUE, !.failed = lastReq.rid]
    /\ UNCHANGED <<store, nextId, remote, nextName, sub, passes, lastReq,
                   conf, resp, ops, inb>>
    /\ UNCHANGED upd

NextLive ==
    \/ LiveScan
    \/ LivePush
    \/ LiveWriteBack
    \/ LiveReturn
    \/ Recover

SpecLive ==
    /\ InitLive
    /\ [][NextLive]_vars
    /\ WF_vars(LiveScan)
    /\ WF_vars(LivePush)
    /\ WF_vars(LiveWriteBack)
    /\ WF_vars(LiveReturn)
    /\ WF_vars(Recover)

----------------------------------------------------------------------------
(* The inbound pass: fetch_all_and_insert (main.py, routes/issues.py) and  *)
(* sync_all_issues_from_erp (services/sync_service.py).                    *)

InbRemote == 2
InbBatch == 2
InbMaxRecords == 3

\* batch_size = 500 and range(0, 5000, batch_size) of fetch_all_and_insert
route_batch_size == 500
route_max_records == 5000

\* The answers the remote endpoint can give to the fetch of a page: 200
\* with data, an error status, or no answer at all.
FetchOutcomes == {"ok", "status", "unreachable"}

RECURSIVE SortedSeq(_)
SortedSeq(S) ==
    IF S = {} THEN <<>>
    ELSE LET m == CHOOSE x \in S : \A y \in S : x <= y
         IN <<m>> \o SortedSeq(S \ {m})

\* The page limit_start = start, limit_page_length = size of the remote
\* resource, each record with the fields the request asks for.
RemotePage(start, size) ==
    LET names == SortedSeq(DOMAIN remote)
        upto  == IF start + size < Len(names) THEN start + size ELSE Len(names)
    IN [j \in 1..(IF upto > start THEN upto - start ELSE 0) |->
            [name      |-> names[start + j],
             subject   |-> remote[names[start + j]].subject,
             raised_by |-> remote[names[start + j]].raised_by,
             status    |-> remote[names[start + j]].status]]

FetchRequest(start, size) ==
    [method |-> "GET", target |-> NoName,
     keys |-> {"limit_start", "limit_page_length"},
     body |-> [limit_start |-> start, limit_page_length |-> size],
     by |-> "inbound", rid |-> 0, recname |-> NoName]

\* What the loop does with a page whose fetch failed.  fetch_all_and_insert
\* breaks on a status other than 200 and catches everything else, the
\* transport errors included, with `except Exception: continue`.
\* sync_all_issues_from_erp breaks on HTTPException and httpx.RequestError;
\* the HTTPStatusError that raise_for_status() raises is neither, and is
\* caught by `except Exception: continue`; the HTTPException of the
\* configuration check breaks.
FetchHandling(impl, o) ==
    IF impl = "service"
    THEN IF o \in {"unreachable", Unsent} THEN "break" ELSE "continue"
    ELSE IF o = "status" THEN "break" ELSE "continue"

\* The next value of the loop variable of range(0, max_records, batch_size),
\* or the end of the loop.
NextPage(b) ==
    IF b.start + b.batch_size < b.max_records
    THEN [b EXCEPT !.pc = "loop", !.start = @ + b.batch_size, !.batch = <<>>]
    ELSE [b EXCEPT !.pc = "done", !.batch = <<>>]

inbound_start(impl, batch_size, max_records) ==
    /\ inb.pc = "idle"
    /\ inb' = [pc |-> "loop", impl |-> impl, batch_size |-> batch_size,
               max_records |-> max_records, start |-> 0, batch |-> <<>>,
               inserted |-> 0, updated |-> 0, failed |-> <<>>,
               lastFetch |-> 0 - 1, okPages |-> {}]
    /\ UNCHANGED <<store, nextId, remote, nextName, sub, passes, lastReq,
                   conf, resp, scen, ops>>
    /\ UNCHANGED upd

\* client.get(url, ...) for the page at the loop variable.
inbound_fetch(o) ==
    /\ inb.pc = "loop"
    /\ lastReq' = IF o = Unsent THEN lastReq
                ELSE Sent(FetchRequest(inb.start, inb.batch_size), o)
    /\ LET b    == [inb EXCEPT !.lastFetch = inb.start]
           page == RemotePage(inb.start, inb.batch_size)
       IN inb' =
            IF o = "ok"
            THEN IF page = <<>> THEN [b EXCEPT !.pc = "done"]
                 ELSE [b EXCEPT !.pc = "batch", !.batch = page,
                                !.okPages = @ \cup {inb.start}]
            ELSE LET f == [b EXCEPT !.failed =
                              Append(@, [start |-> inb.start, kind |-> o])]
                 IN IF FetchHandling(inb.impl, o) = "break"
                    THEN [f EXCEPT !.pc = "done"]
                    ELSE NextPage(f)
    /\ UNCHANGED <<store, nextId, remote, nextName, sub, passes, conf, resp,
                   scen, ops>>
    /\ UNCHANGED upd

\* The status of a returned record that has no status key.
Absent == "absent"

\* issue_from_erp.get("status", "Open"): the default stands in for a
\* missing key only; a status the remote returns as null is stored as null.
erp_status(r) == IF r.status = Absent THEN "Open" ELSE r.status

Named_none(name) == {}

Named_pending(name) == {i \in DOMAIN store : store[i].name = name /\ ~store[i].synced}

\* The local ids of the documents whose name is the given one.
Named(name) == {i \in DOMAIN store : store[i].name = name}

\* modified_count of the update_one on a matched document d: 1 when the
\* $set changes a field.  synced_at is set to utcnow(), which the store
\* keeps to the millisecond: tick says that this is another millisecond
\* than the one d holds.
Modified(d, r, status, tick) ==
    \/ d.subject # r.subject
    \/ d.raised_by # r.raised_by
    \/ d.status # status
    \/ ~d.synced
    \/ d.synced_at = "null"
    \/ tick

CountUpsert_allInserted(b, upserted, modified) == [b EXCEPT !.inserted = @ + 1]

\* if result.upserted_id: inserted_total += 1
\* elif result.modified_count > 0: updated_total += 1
CountUpsert(b, upserted, modified) ==
    IF upserted THEN [b EXCEPT !.inserted = @ + 1]
    ELSE IF modified THEN [b EXCEPT !.updated = @ + 1]
    ELSE b

\* update_one({"name": name}, {"$set": update_data}, upsert=True) for the
\* first record of the batch, and the counters.  The clock is the one input
\* of the step: utcnow() gives the millisecond the matched document holds
\* or a later one.
inbound_upsert ==
    /\ inb.pc = "batch"
    /\ \E tick \in BOOLEAN :
       LET r   == Head(inb.batch)
           ids == Named(r.name)
           b   == IF Tail(inb.batch) = <<>> THEN NextPage(inb)
                  ELSE [inb EXCEPT !.batch = Tail(@)]
       IN IF ids = {}
          THEN /\ store' = store @@ (nextId :>
                      [subject |-> r.subject, raised_by |-> r.raised_by,
                       status |-> erp_status(r), name |-> r.name,
                       synced |-> TRUE, synced_at |-> "ts"])
               /\ nextId' = nextId + 1
               /\ inb' = CountUpsert(b, TRUE, FALSE)
          ELSE LET i == CHOOSE x \in ids : \A y \in ids : x <= y
               IN /\ store' = [store EXCEPT ![i] =
                         [@ EXCEPT !.subject = r.subject,
                                   !.raised_by = r.raised_by,
                                   !.status = erp_status(r),
                                   !.synced = TRUE, !.synced_at = "ts"]]
                  /\ nextId' = nextId
                  /\ inb' = CountUpsert(b, FALSE,
                                Modified(store[i], r, erp_status(r), tick))
    /\ UNCHANGED <<remote, nextName, sub, passes, lastReq, conf, resp, scen, ops>>
    /\ UNCHANGED upd

\* return {"inserted_total": ..., "updated_total": ..., "failed_batches": ...}
inbound_return ==
    /\ inb.pc = "done"
    /\ resp' = [op |-> "fetch_all", code |-> 200, inserted |-> inb.inserted,
                updated |-> inb.updated, failed |-> inb.failed,
                lastFetch |-> inb.lastFetch]
    /\ inb' = NoInb
    /\ scen' = IF scen.mode \in {"pull", "retry"}
               THEN [scen EXCEPT !.log = Append(@,
                        [inserted |-> inb.inserted, updated |-> inb.updated,
                         failed |-> inb.failed, okPages |-> inb.okPages,
                         batch_size |-> inb.batch_size,
                         size |-> Cardinality(DOMAIN store)])]
               ELSE IF scen.mode = "mix"
                    THEN [scen EXCEPT !.pulls = @ + 1]
                    ELSE scen
    /\ UNCHANGED <<store, nextId, remote, nextName, sub, passes, lastReq,
                   conf, ops>>
    /\ UNCHANGED upd

\* A local document that came from the remote record of the given name.
PulledDoc(k) ==
    [subject |-> "s2", raised_by |-> "u1", status |-> "Open", name |-> k,
     synced |-> TRUE, synced_at |-> "ts"]

InitInbound ==
    \E n \in 0..InbRemote :
      \E known \in SUBSET (1..n) :
        LET ks == SortedSeq(known)
        IN  /\ store = [i \in 1..Len(ks) |-> PulledDoc(ks[i])]
            /\ nextId = Len(ks) + 1
            /\ remote = [k \in 1..n |-> RemoteDoc(k)]
            /\ nextName = n + 1
            /\ sub = NoSub
            /\ passes = [p \in Triggers |-> IdlePass]
            /\ lastReq = NoReq
            /\ conf = <<>>
            /\ resp = NoResp
            /\ scen = [mode |-> "inbound"]
            /\ ops = 0
            /\ inb = NoInb
            /\ upd = NoUpd

InboundStartRoute ==
    \E impl \in {"main", "routes"} :
        inbound_start(impl, route_batch_size, route_max_records)

InboundStartService ==
    \E batch_size \in 1..InbBatch, max_records \in 1..InbMaxRecords :
        inbound_start("service", batch_size, max_records)

InboundFetch == \E o \in FetchOutcomes : inbound_fetch(o)

NextInbound ==
    \/ InboundStartRoute
    \/ InboundStartService
    \/ InboundFetch
    \/ inbound_upsert
    \/ inbound_return

SpecInbound == InitInbound /\ [][NextInbound]_vars

\* C20: while an inbound pass runs and in its result, when the fetch of a
\* page has failed there is one failed range, and its offset is that of
\* the last page the pass has requested.
FailedFetchStopsPass ==
    /\ (inb.pc # "idle" /\ inb.failed # <<>>)
          => /\ Len(inb.failed) = 1
             /\ inb.lastFetch = inb.failed[1].start
    /\ (resp.op = "fetch_all" /\ resp.failed # <<>>)
          => /\ Len(resp.failed) = 1
             /\ resp.lastFetch = resp.failed[1].start

----------------------------------------------------------------------------
(* One inbound pass after the other, nothing else running, over a given    *)
(* remote data set, with the remote's answer to the fetch of each page     *)
(* fixed beforehand.                                                       *)

PullRemote == 2
PullPages == 2
PullMaxRecords == 3

\* The status of a remote record as a page returns it: a value, the key
\* missing, or the key with JSON null.
RemoteStatuses == {"Closed", Absent, Null}

\* The parameters of the passes: those of fetch_all_and_insert, or a
\* batch_size and max_records given to sync_all_issues_from_erp.
PullParams ==
    {[impl |-> "routes", batch_size |-> route_batch_size,
      max_records |-> route_max_records]}
    \cup [impl : {"service"}, batch_size : 1..PullPages,
          max_records : 1..PullMaxRecords]

\* A remote record, as the remote holds it before the passes.
RemoteIssue(k, status) ==
    [subject |-> "s1", raised_by |-> "u1", status |-> status,
     src |-> 0, via |-> "remote"]

InitPull ==
    \E n \in 0..PullRemote :
      \E known \in SUBSET (1..n), status \in [1..n -> RemoteStatuses] :
        \E fate \in [0..(PullPages - 1) -> FetchOutcomes], par \in PullParams :
          LET ks == SortedSeq(known)
          IN  /\ store = [i \in 1..Len(ks) |-> PulledDoc(ks[i])]
              /\ nextId = Len(ks) + 1
              /\ remote = [k \in 1..n |-> RemoteIssue(k, status[k])]
              /\ nextName = n + 1
              /\ sub = NoSub
              /\ passes = [p \in Triggers |-> IdlePass]
              /\ lastReq = NoReq
              /\ conf = <<>>
              /\ resp = NoResp
              /\ scen = [mode |-> "pull", fate |-> fate, par |-> par,
                         log |-> <<>>, size0 |-> Len(ks)]
              /\ ops = 0
              /\ inb = NoInb
              /\ upd = NoUpd

\* The remote's answer to the fetch of the page at the given offset: the
\* one fixed beforehand, or success in the passes after the first when the
\* remote has recovered by then.
FateAt(start, size) ==
    IF scen.mode = "retry" /\ scen.later = "ok" /\ Len(scen.log) >= 1
    THEN "ok"
    ELSE IF start \div size < PullPages THEN scen.fate[start \div size]
         ELSE "ok"

PullStartRoute ==
    /\ Len(scen.log) < Runs
    /\ scen.par.impl = "routes"
    /\ inbound_start("routes", route_batch_size, route_max_records)

PullStartService ==
    /\ Len(scen.log) < Runs
    /\ scen.par.impl = "service"
    /\ inbound_start("service", scen.par.batch_size, scen.par.max_records)

PullFetch == inb.pc = "loop" /\ inbound_fetch(FateAt(inb.start, inb.batch_size))

NextPull ==
    \/ PullStartRoute
    \/ PullStartService
    \/ PullFetch
    \/ inbound_upsert
    \/ inbound_return

SpecPull == InitPull /\ [][NextPull]_vars

\* The remote records of the page at the given offset.
PageRecords(start, size) ==
    {RemotePage(start, size)[j] : j \in DOMAIN RemotePage(start, size)}

\* The local document i carries the values of the remote record r, with
\* status "Open" for a record that has none.
Mirrors(i, r) ==
    /\ store[i].name = r.name
    /\ store[i].subject = r.subject
    /\ store[i].raised_by = r.raised_by
    /\ store[i].status = (IF r.status \in {Absent, Null} THEN "Open"
                          ELSE r.status)
    /\ store[i].synced
    /\ store[i].synced_at # "null"

\* C21: after an inbound pass, for every remote record of a page the pass
\* fetched without failure there is a local document with its name, its
\* subject and raised_by, its status ("Open" when it has none), synced and
\* with a synced_at; and each upsert inserts one document when the name
\* was unknown and modifies a document of that name in place otherwise.
PulledPagesAreMirrored ==
    /\ [](scen.mode = "pull" =>
            \A e \in 1..Len(scen.log) :
              \A start \in scen.log[e].okPages :
                \A r \in PageRecords(start, scen.log[e].batch_size) :
                  \E i \in DOMAIN store : Mirrors(i, r))
    /\ [][inb.pc = "batch" =>
            LET r == Head(inb.batch)
            IN IF Named(r.name) = {}
               THEN /\ DOMAIN store' = DOMAIN store \cup {nextId}
                    /\ \A j \in DOMAIN store : store'[j] = store[j]
                    /\ store'[nextId].name = r.name
               ELSE /\ DOMAIN store' = DOMAIN store
                    /\ \E i \in Named(r.name) :
                          \A j \in DOMAIN store \ {i} : store'[j] = store[j]]_vars

\* C22: of two inbound passes in a row over the same remote data set, with
\* nothing in between, the second reports no insert and leaves as many
\* local documents as the first.
SecondPullInsertsNothing ==
    scen.mode = "pull" =>
        \A e \in 2..Len(scen.log) :
            /\ scen.log[e].inserted = 0
            /\ scen.log[e].size = scen.log[e - 1].size

\* C22 witness: a first pass inserted a document, and a second pass over
\* the same data has returned after modifying documents.
SecondPullSeen ==
    /\ scen.mode = "pull"
    /\ Len(scen.log) >= 2
    /\ scen.log[1].inserted >= 1
    /\ scen.log[1].size > scen.size0
    /\ scen.log[2].updated >= 1
    /\ scen.log[2].size = scen.log[1].size

\* The number of local documents before the e-th pass of the log.
SizeBefore(e) == IF e = 1 THEN scen.size0 ELSE scen.log[e - 1].size

\* The number of remote records in the pages at the given offsets.
RECURSIVE FetchedCount(_, _)
FetchedCount(starts, size) ==
    IF starts = {} THEN 0
    ELSE LET st == CHOOSE x \in starts : TRUE
         IN Len(RemotePage(st, size)) + FetchedCount(starts \ {st}, size)

\* C31: an inbound pass that runs alone reports as inserted the number of
\* local documents it created (the count after minus the count before),
\* during the pass and in its result, and inserted plus updated is at most
\* the number of remote records it fetched.
PullCountsMatchStore ==
    scen.mode = "pull" =>
        /\ \A e \in 1..Len(scen.log) :
              /\ scen.log[e].inserted = scen.log[e].size - SizeBefore(e)
              /\ scen.log[e].inserted + scen.log[e].updated
                    <= FetchedCount(scen.log[e].okPages, scen.log[e].batch_size)
        /\ inb.pc # "idle" =>
              /\ inb.inserted
                    = Cardinality(DOMAIN store) - SizeBefore(Len(scen.log) + 1)
              /\ inb.inserted + inb.updated
                    <= FetchedCount(inb.okPages, inb.batch_size)

\* C31 witness: a pass over two pages has returned with one document
\* inserted and one modified.
PullCountsSeen ==
    /\ scen.mode = "pull"
    /\ Len(scen.log) >= 1
    /\ Cardinality(scen.log[1].okPages) >= 2
    /\ scen.log[1].inserted = 1
    /\ scen.log[1].updated = 1
    /\ scen.log[1].size = scen.size0 + 1

\* The rank of a remote record in the order the remote lists them.
Position(name) == Cardinality({k \in DOMAIN remote : k <= name})

\* C23: an inbound pass requests pages at offsets that are multiples of
\* batch_size, and neither requests nor upserts a remote record beyond the
\* first max_records ones.
PullStaysWithinMaxRecords ==
    (scen.mode = "pull" /\ inb.pc # "idle") =>
        /\ inb.start % inb.batch_size = 0
        /\ inb.lastFetch >= 0 => inb.lastFetch + inb.batch_size <= inb.max_records
        /\ \A j \in DOMAIN inb.batch :
              Position(inb.batch[j].name) <= inb.max_records

----------------------------------------------------------------------------
(* Inbound passes one after the other where the remote, after the first    *)
(* pass, either answers as before or answers every fetch.                  *)

\* The statuses of the remote records: any mix of a value and a missing
\* key, or null throughout.
InitRetry ==
    \E n \in 0..PullRemote :
      \E known \in SUBSET (1..n),
         status \in [1..n -> RemoteStatuses \ {Null}] \cup {[k \in 1..n |-> Null]} :
        \E fate \in [0..(PullPages - 1) -> FetchOutcomes], par \in PullParams,
           later \in {"same", "ok"} :
          LET ks == SortedSeq(known)
          IN  /\ store = [i \in 1..Len(ks) |-> PulledDoc(ks[i])]
              /\ nextId = Len(ks) + 1
              /\ remote = [k \in 1..n |-> RemoteIssue(k, status[k])]
              /\ nextName = n + 1
              /\ sub = NoSub
              /\ passes = [p \in Triggers |-> IdlePass]
              /\ lastReq = NoReq
              /\ conf = <<>>
              /\ resp = NoResp
              /\ scen = [mode |-> "retry", fate |-> fate, par |-> par,
                         later |-> later, log |-> <<>>, size0 |-> Len(ks)]
              /\ ops = 0
              /\ inb = NoInb
              /\ upd = NoUpd

SpecRetry == InitRetry /\ [][NextPull]_vars

\* The local document i holds what the upsert writes for the remote
\* record r.
Upserted(i, r) ==
    /\ store[i].name = r.name
    /\ store[i].subject = r.subject
    /\ store[i].raised_by = r.raised_by
    /\ store[i].status = erp_status(r)
    /\ store[i].synced
    /\ store[i].synced_at # "null"

\* C32: once an inbound pass has returned with a failed range, every
\* remote record of the pages it fetched keeps one local document with the
\* values upserted from it and never gets a second one, also during and after later
\* passes; a later pass fetches those pages again, and whatever it inserts
\* comes from pages the pass before it did not fetch.
PartialProgressKept ==
    scen.mode = "retry" =>
        /\ \A e \in 1..Len(scen.log) :
              scen.log[e].failed # <<>> =>
                \A start \in scen.log[e].okPages :
                  \A r \in PageRecords(start, scen.log[e].batch_size) :
                    \E i \in DOMAIN store :
                        Named(r.name) = {i} /\ Upserted(i, r)
        /\ \A e \in 2..Len(scen.log) :
              /\ scen.log[e - 1].okPages \subseteq scen.log[e].okPages
              /\ scen.log[e].inserted
                    <= FetchedCount(scen.log[e].okPages \ scen.log[e - 1].okPages,
                                    scen.log[e].batch_size)

\* C32 witness: a first pass inserted a document from the page before the
\* one that failed, and a second pass has modified that document and
\* inserted one from the page that had failed.
PartialProgressSeen ==
    /\ scen.mode = "retry"
    /\ Len(scen.log) >= 2
    /\ scen.log[1].failed # <<>>
    /\ scen.log[1].inserted >= 1
    /\ scen.log[2].failed = <<>>
    /\ scen.log[2].updated >= 1
    /\ scen.log[2].inserted >= 1
    /\ scen.log[2].size = scen.log[1].size + scen.log[2].inserted

----------------------------------------------------------------------------
(* update_local_issue with every field of its request model, over a given  *)
(* collection.                                                             *)

\* The names a caller can put in the request: null, or any string.
CallerNames == {NoName, 0 - 1, 0 - 9}

EditInputs ==
    UpdateInputs
    \cup [subject : {"s1"}, raised_by : Originators, status : {Unset},
          name : CallerNames]

InitEdit ==
    \E n \in 0..CrudRecs :
      \E named \in SUBSET (1..n), done \in SUBSET (1..n) :
            /\ store = [i \in 1..n |-> StoredDoc(i, named, done)]
            /\ nextId = n + 1
            /\ remote = [k \in {0 - i : i \in named} |-> RemoteDoc(0 - k)]
            /\ nextName = 1
            /\ sub = NoSub
            /\ passes = [p \in Triggers |-> IdlePass]
            /\ lastReq = NoReq
            /\ conf = <<>>
            /\ resp = NoResp
            /\ scen = [mode |-> "edit"]
            /\ ops = 0
            /\ inb = NoInb
            /\ upd = NoUpd

EditUpdate ==
    /\ CrudStart
    /\ \E id \in 0..nextId, inp \in EditInputs : update_local_issue(id, inp)

EditRead == update_local_issue_find /\ UNCHANGED <<ops, inb>>

EditCreate ==
    /\ CrudStart
    /\ nextId <= CrudRecs + 1
    /\ \E inp \in EditInputs : create_local_issue(inp)

EditDelete == CrudStart /\ \E id \in 0..nextId : delete_local_issue(id)

EditDeleteAll == CrudStart /\ delete_issues

NextEdit ==
    \/ EditUpdate
    \/ EditRead
    \/ EditCreate
    \/ EditDelete
    \/ EditDeleteAll

SpecEdit == InitEdit /\ [][NextEdit]_vars

\* C24: the name of a local document, once set, is never changed to
\* another value.
NameIsStable ==
    [][\A i \in DOMAIN store :
          (store[i].name # NoName /\ i \in DOMAIN store')
          => store'[i].name = store[i].name]_vars

\* C25: in every state, a document with synced = false has synced_at =
\* null and a document with synced = true has a synced_at.
StampMatchesSynced ==
    \A i \in DOMAIN store : store[i].synced <=> store[i].synced_at # "null"

\* C25 witness: a pass has synced a pending document, which now has a
\* synced_at, after an update had cleared it.
ResyncedAfterEditSeen ==
    /\ resp.op = "sync"
    /\ resp.count >= 1
    /\ \E i \in DOMAIN store :
          /\ store[i].synced
          /\ store[i].synced_at = "ts"
          /\ i \in DOMAIN conf
          /\ conf[i].subject = "s2"

\* The fields of a document that are the caller's.
CallerFields == {"subject", "raised_by", "status"}

\* C26: the body of every create or update sent to the remote, by submit
\* or by a pass, has only the fields subject, raised_by and status.
BodyHasCallerFieldsOnly ==
    lastReq.method \in {"POST", "PUT"} => lastReq.keys \subseteq CallerFields

\* C27: the status in the body of every create or update sent to the
\* remote, by submit or by a pass, is in capitalized form.
SentStatusIsCapitalized ==
    lastReq.method \in {"POST", "PUT"}
        => lastReq.body.status = Capitalize(lastReq.body.status)

\* C28: a remote update has the name in its target and not among the
\* fields of its body.
UpdateNameOnlyInTarget ==
    lastReq.method = "PUT"
        => /\ lastReq.target # NoName
           /\ "name" \notin lastReq.keys

----------------------------------------------------------------------------
(* The handlers and passes under a given configuration: ERP_API_URL and    *)
(* ERP_SID each set or empty.                                              *)

CfgRecs == 1
CfgOps == 2

InitConfig ==
    \E n \in 0..CfgRecs :
      \E named \in SUBSET (1..n) :
        \E url \in BOOLEAN, sid \in BOOLEAN :
            /\ store = [i \in 1..n |-> PendingDoc(i, named)]
            /\ nextId = n + 1
            /\ remote = [k \in {0 - i : i \in named} |-> RemoteDoc(0 - k)]
            /\ nextName = 1
            /\ sub = NoSub
            /\ passes = [p \in Triggers |-> IdlePass]
            /\ lastReq = NoReq
            /\ conf = <<>>
            /\ resp = NoResp
            /\ scen = [mode |-> "config", url |-> url, sid |-> sid,
                       configured |-> url /\ sid]
            /\ ops = 0
            /\ inb = NoInb
            /\ upd = NoUpd

\* The outcomes of a remote call made through erp_service, which checks
\* the settings first, and of one made by a handler's own HTTP client,
\* which does not: an empty URL is refused by the client, an empty session
\* id is sent as it is and the remote rejects the request.
CallOutcomes(viaService) ==
    IF Configured THEN {"ok", "unreachable"}
    ELSE IF viaService \/ ~scen.url THEN {Unsent}
    ELSE {"rejected"}

CfgStart == ops < CfgOps /\ ops' = ops + 1

CfgSubmitPost ==
    /\ CfgStart
    /\ UNCHANGED inb
    /\ nextId <= CfgRecs + 1
    /\ \E o \in CallOutcomes(FALSE) :
          /\ o \in Success => nextName <= MaxRemote
          /\ submit_issue_post([subject |-> "s1", raised_by |-> "u1",
                                status |-> Unset], o)

CfgSubmitInsert == submit_issue_insert /\ UNCHANGED <<ops, inb>>

CfgScan ==
    /\ CfgStart
    /\ UNCHANGED inb
    /\ inb.pc = "idle"
    /\ \E impl \in Impls : sync_scan("manual", impl)

CfgPush ==
    /\ UNCHANGED <<ops, inb>>
    /\ passes["manual"].pc = "loop"
    /\ \E o \in CallOutcomes(passes["manual"].impl = "service") :
          sync_push("manual", o)

CfgWriteBack == sync_writeback("manual") /\ UNCHANGED <<ops, inb>>

CfgReturn == sync_return("manual") /\ UNCHANGED <<ops, inb>>

CfgPullStart ==
    /\ ops < CfgOps
    /\ passes["manual"].pc = "idle"
    /\ \/ inbound_start("routes", route_batch_size, route_max_records)
       \/ inbound_start("service", 1, 2)

CfgFetch ==
    /\ inb.pc = "loop"
    /\ \E o \in CallOutcomes(inb.impl = "service") :
          inbound_fetch(IF o = "rejected" THEN "status" ELSE o)

NextConfig ==
    \/ CfgSubmitPost
    \/ CfgSubmitInsert
    \/ CfgScan
    \/ CfgPush
    \/ CfgWriteBack
    \/ CfgReturn
    \/ CfgPullStart
    \/ CfgFetch
    \/ inbound_upsert
    \/ inbound_return

SpecConfig == InitConfig /\ [][NextConfig]_vars

\* C29: while ERP_API_URL or ERP_SID is not configured, no request is sent
\* to the remote by a create, an update or a page fetch, and every
\* document stays pending.
NotConfiguredSendsNothing ==
    (scen.mode = "config" /\ ~Configured) =>
        /\ lastReq = NoReq
        /\ \A i \in DOMAIN store : ~store[i].synced

----------------------------------------------------------------------------
(* Outbound pass, inbound pass and the callers' update and delete running  *)
(* against each other over a collection that earlier submits, passes and   *)
(* edits have left.                                                        *)

MixRecs == 2
MixOps == 3
MixPulls == 1

\* batch_size and max_records defaults of sync_all_issues_from_erp
service_batch_size == 500
service_max_records == 35000

\* How a local document came to be: stored by a submit that failed
\* ("pending"), stored by a submit that succeeded ("submitted"), pushed by
\* the pass of sync_service.py ("synced"), or pushed by it and edited by a
\* caller since ("edited").
MixKinds == {"pending", "submitted", "synced", "edited"}

MixDoc(i, kind) ==
    [subject |-> "s1", raised_by |-> "u1", status |-> "open",
     name |-> IF kind \in {"synced", "edited"} THEN 0 - i ELSE NoName,
     synced |-> kind \in {"submitted", "synced"},
     synced_at |-> IF kind \in {"submitted", "synced"} THEN "ts" ELSE "null"]

\* The remote record of a local document that was pushed.
MixRemote(i, kind) ==
    [subject |-> "s1", raised_by |-> "u1",
     status |-> IF kind = "submitted" THEN "open" ELSE "Open",
     src |-> i, via |-> IF kind = "submitted" THEN "submit" ELSE "pass"]

InitMix ==
    \E n \in 0..MixRecs :
      \E kind \in [1..n -> MixKinds] :
            /\ store = [i \in 1..n |-> MixDoc(i, kind[i])]
            /\ nextId = n + 1
            /\ remote = [k \in {0 - i : i \in {j \in 1..n : kind[j] # "pending"}}
                            |-> MixRemote(0 - k, kind[0 - k])]
            /\ nextName = 1
            /\ sub = NoSub
            /\ passes = [p \in Triggers |-> IdlePass]
            /\ lastReq = NoReq
            /\ conf = <<>>
            /\ resp = NoResp
            /\ scen = [mode |-> "mix", gone |-> {}, pulls |-> 0]
            /\ ops = 0
            /\ inb = NoInb
            /\ upd = NoUpd

MixStart == ops < MixOps /\ ops' = ops + 1

MixScan ==
    /\ MixStart
    /\ \E impl \in Impls : sync_scan("manual", impl)
    /\ UNCHANGED inb

MixPush ==
    /\ \E o \in {"ok", "unreachable"} : sync_push("manual", o)
    /\ UNCHANGED <<ops, inb>>

MixWriteBack == sync_writeback("manual") /\ UNCHANGED <<ops, inb>>

MixReturn == sync_return("manual") /\ UNCHANGED <<ops, inb>>

MixUpdate ==
    /\ MixStart
    /\ \E id \in DOMAIN store :
          update_local_issue(id, [subject |-> "s2", raised_by |-> "u1",
                                  status |-> Unset])
    /\ UNCHANGED inb

MixRead == update_local_issue_find /\ UNCHANGED <<ops, inb>>

MixDelete ==
    /\ MixStart
    /\ \E id \in DOMAIN store : delete_local_issue(id)
    /\ UNCHANGED inb

MixPullStart ==
    /\ scen.pulls < MixPulls
    /\ \/ inbound_start("routes", route_batch_size, route_max_records)
       \/ inbound_start("service", service_batch_size, service_max_records)

\* The remote answers every fetch of the inbound pass here.
MixFetch == inbound_fetch("ok")

NextMix ==
    \/ MixScan
    \/ MixPush
    \/ MixWriteBack
    \/ MixReturn
    \/ MixUpdate
    \/ MixRead
    \/ MixDelete
    \/ MixPullStart
    \/ MixFetch
    \/ inbound_upsert
    \/ inbound_return

SpecMix == InitMix /\ [][NextMix]_vars

\* C34: no two local documents carry the same name, unless it is null.
NamesAreUnique ==
    scen.mode = "mix" =>
        \A i, j \in DOMAIN store :
            (i # j /\ store[i].name # NoName) => store[i].name # store[j].name

\* C35: a remote record that a submit or an outbound create pushed for a
\* local document that is still in the collection is carried, as name, by
\* no other local document: the inbound pass does not insert a second one.
PushedStaysJoined ==
    scen.mode = "mix" =>
        \A k \in DOMAIN remote :
            remote[k].src \in DOMAIN store => Named(k) \subseteq {remote[k].src}

\* The step of the inbound pass that upserts the head of its batch.
UpsertStep == inb.pc = "batch" /\ inb' # inb

\* C36: an upsert of the inbound pass leaves every pending local document
\* that has a name as it is: its subject, raised_by, status and
\* synced = false.
InboundKeepsPendingEdit ==
    [][(scen.mode = "mix" /\ UpsertStep) =>
          \A i \in DOMAIN store :
              (~store[i].synced /\ store[i].name # NoName) =>
                  store'[i] = store[i]]_vars

\* C37: no upsert of the inbound pass inserts a local document under the
\* name of a document that a caller has deleted.
DeletedStaysDeleted ==
    [][(scen.mode = "mix" /\ UpsertStep /\ Head(inb.batch).name \in scen.gone) =>
          DOMAIN store' = DOMAIN store]_vars

\* C38: each time an outbound pass adds one to its count, the document it
\* has just pushed is in the collection, was pending, and becomes synced
\* by that step; so the count a pass returns is the number of documents
\* it changed from pending to synced.
CountIsRecordsChanged ==
    [][\A p \in Triggers :
          (passes[p].pc = "sent" /\ passes'[p].count = passes[p].count + 1) =>
              LET id == Head(passes[p].snap).id
              IN /\ id \in DOMAIN store
                 /\ ~store[id].synced
                 /\ store'[id].synced]_vars

----------------------------------------------------------------------------
(* The three implementations of the outbound pass side by side.            *)

\* What an implementation does with one pending document under a given
\* answer of the remote: the request it sends, and the document it leaves.
PassEffect(impl, p, h, o) ==
    LET req == PassRequest(impl, p, h.id, h.doc)
    IN [method |-> req.method, target |-> req.target, keys |-> req.keys,
        body |-> req.body,
        doc |-> IF AfterPush(impl, req, o) = "write"
                THEN SyncedSet(impl, h.doc, NameAfterPush(impl, req, o))
                ELSE h.doc]

\* C33: for every pending document a pass is about to push and every
\* answer of the remote, the pass of main.py, the one of routes/issues.py
\* and the one of sync_service.py send the same request and leave the same
\* synced, synced_at and name on the document.
PassesAgree ==
    scen.mode = "pass" =>
        \A p \in Triggers :
            (passes[p].pc = "loop" /\ passes[p].snap # <<>>) =>
                \A a, b \in Impls, o \in Outcomes :
                    PassEffect(a, p, Head(passes[p].snap), o)
                        = PassEffect(b, p, Head(passes[p].snap), o)

----------------------------------------------------------------------------
(* The store helpers of services/mongo_service.py.  They write what their  *)
(* caller hands them; no handler of the program calls them.                *)

\* The documents and the $set dictionaries a caller hands over.
StoreDocs ==
    [subject : {"s1"}, raised_by : Originators, status : {"Open"},
     name : {NoName, 0 - 9}, synced : BOOLEAN, synced_at : {"null", "ts"}]

StoreSets == [subject : Subjects] \cup [status : {"Closed"}] \cup [synced : BOOLEAN]

\* {"$set": update_data} applied to a document.
SetFields(doc, data) ==
    [f \in DOMAIN doc |-> IF f \in DOMAIN data THEN data[f] ELSE doc[f]]

\* create_issue up to its first await: insert_one(issue_data).
mongo_create_issue(data) ==
    /\ upd.pc = "idle"
    /\ store' = store @@ (nextId :> data)
    /\ nextId' = nextId + 1
    /\ upd' = [pc |-> "created", id |-> nextId]
    /\ UNCHANGED <<remote, nextName, sub, passes, lastReq, conf, resp, scen>>

\* update_issue up to its first await: None for an id that is not an
\* ObjectId, else update_one with the plain $set.
mongo_update_issue(id, data) ==
    /\ upd.pc = "idle"
    /\ IF id = NotAnId
       THEN /\ resp' = [op |-> "store_update", code |-> "none", id |-> id]
            /\ UNCHANGED <<store, upd>>
       ELSE /\ store' = IF id \in DOMAIN store
                        THEN [store EXCEPT ![id] = SetFields(@, data)]
                        ELSE store
            /\ upd' = [pc |-> "set", id |-> id]
            /\ resp' = resp
    /\ UNCHANGED <<nextId, remote, nextName, sub, passes, lastReq, conf, scen>>

\* The find_one both helpers end with: update_issue returns the document
\* or None; create_issue subscripts the result, which raises TypeError when
\* the document is gone.
mongo_read_back ==
    /\ upd.pc \in {"created", "set"}
    /\ resp' = [op |-> IF upd.pc = "set" THEN "store_update" ELSE "store_create",
                code |-> IF upd.id \in DOMAIN store THEN "document"
                         ELSE IF upd.pc = "set" THEN "none" ELSE "TypeError",
                id |-> upd.id]
    /\ upd' = NoUpd
    /\ UNCHANGED <<store, nextId, remote, nextName, sub, passes, lastReq,
                   conf, scen>>

\* delete_issue: delete_one, and whether a document was deleted.
mongo_delete_issue(id) ==
    /\ store' = Restrict(store, DOMAIN store \ {id})
    /\ conf' = Restrict(conf, DOMAIN conf \ {id})
    /\ resp' = [op |-> "store_delete", code |-> id \in DOMAIN store, id |-> id]
    /\ UNCHANGED <<nextId, remote, nextName, sub, passes, lastReq, scen, upd>>

\* delete_all_issues: delete_many({}), and the number deleted.
mongo_delete_all_issues ==
    /\ store' = <<>>
    /\ conf' = <<>>
    /\ resp' = [op |-> "store_delete_all", code |-> Cardinality(DOMAIN store)]
    /\ UNCHANGED <<nextId, remote, nextName, sub, passes, lastReq, scen, upd>>

InitStore ==
    \E n \in 0..CrudRecs :
      \E named \in SUBSET (1..n), done \in SUBSET (1..n) :
            /\ store = [i \in 1..n |-> StoredDoc(i, named, done)]
            /\ nextId = n + 1
            /\ remote = [k \in {0 - i : i \in named} |-> RemoteDoc(0 - k)]
            /\ nextName = 1
            /\ sub = NoSub
            /\ passes = [p \in Triggers |-> IdlePass]
            /\ lastReq = NoReq
            /\ conf = <<>>
            /\ resp = NoResp
            /\ scen = [mode |-> "store"]
            /\ ops = 0
            /\ inb = NoInb
            /\ upd = NoUpd

StoreCreate ==
    /\ CrudStart
    /\ nextId <= CrudRecs + 1
    /\ \E data \in StoreDocs : mongo_create_issue(data)

StoreUpdate ==
    /\ CrudStart
    /\ \E id \in 0..nextId, data \in StoreSets : mongo_update_issue(id, data)

StoreReadBack == mongo_read_back /\ UNCHANGED <<ops, inb>>

StoreDelete == CrudStart /\ \E id \in 0..nextId : mongo_delete_issue(id)

StoreDeleteAll == CrudStart /\ mongo_delete_all_issues

NextStore ==
    \/ StoreCreate
    \/ StoreUpdate
    \/ StoreReadBack
    \/ StoreDelete
    \/ StoreDeleteAll

SpecStore == InitStore /\ [][NextStore]_vars

----------------------------------------------------------------------------
(* startup_event and shutdown_event of main.py around the scheduled pass.  *)

LifeRecs == 2

InitLife ==
    \E n \in 0..LifeRecs :
      \E named \in SUBSET (1..n) :
            /\ store = [i \in 1..n |-> PendingDoc(i, named)]
            /\ nextId = n + 1
            /\ remote = [k \in {0 - i : i \in named} |-> RemoteDoc(0 - k)]
            /\ nextName = 1
            /\ sub = NoSub
            /\ passes = [p \in Triggers |-> IdlePass]
            /\ lastReq = NoReq
            /\ conf = <<>>
            /\ resp = NoResp
            /\ scen = [mode |-> "life", phase |-> "boot", db |-> "unset",
                       sched |-> "stopped"]
            /\ ops = 0
            /\ inb = NoInb
            /\ upd = NoUpd

LifeFrame ==
    UNCHANGED <<store, nextId, remote, nextName, sub, passes, lastReq, conf,
                resp, ops, inb, upd>>

\* await connect_to_mongo(); issues_collection = get_issues_collection().
\* A failed ping raises out of startup_event with the handle reset to None.
startup_connect ==
    /\ scen.phase = "boot"
    /\ \E connected \in BOOLEAN :
          scen' = IF connected
                  THEN [scen EXCEPT !.phase = "connected", !.db = "open"]
                  ELSE [scen EXCEPT !.phase = "failed"]
    /\ LifeFrame

\* scheduler.add_job(sync_pending_issues_task, ...); scheduler.start()
startup_schedule ==
    /\ scen.phase = "connected"
    /\ scen' = [scen EXCEPT !.phase = "up", !.sched = "running"]
    /\ LifeFrame

\* scheduler.shutdown(), then close_mongo_connection(), which has no await
\* in it: nothing else runs between the two, and a pass that is suspended
\* at an await is not run to its end by either.
shutdown_event ==
    /\ scen.phase = "up"
    /\ scen' = [scen EXCEPT !.phase = "down", !.sched = "shutdown",
                            !.db = "closed"]
    /\ LifeFrame

\* The timer fires the job.
LifeScan ==
    /\ scen.sched = "running"
    /\ sync_scan("timer", "main")
    /\ UNCHANGED <<ops, inb>>

LifePush == UNCHANGED <<ops, inb>> /\ \E o \in Outcomes : sync_push("timer", o)

LifeWriteBack ==
    /\ scen.db = "open"
    /\ sync_writeback("timer")
    /\ UNCHANGED <<ops, inb>>

\* update_one on the closed client raises inside the try block; the except
\* branch logs and the loop goes on.
LifeWriteFails ==
    /\ scen.db = "closed"
    /\ passes["timer"].pc = "sent"
    /\ passes' = [passes EXCEPT !["timer"] =
           [@ EXCEPT !.pc = "loop", !.snap = Tail(@), !.name = NoName]]
    /\ UNCHANGED <<store, nextId, remote, nextName, sub, lastReq, conf, resp,
                   scen, ops, inb>>
    /\ UNCHANGED upd

\* The job's task is cancelled by the executor's shutdown and ends at the
\* await it was suspended at.
LifeCancelled ==
    /\ scen.sched = "shutdown"
    /\ passes["timer"].pc # "idle"
    /\ passes' = [passes EXCEPT !["timer"] = IdlePass]
    /\ UNCHANGED <<store, nextId, remote, nextName, sub, lastReq, conf, resp,
                   scen, ops, inb>>
    /\ UNCHANGED upd

LifeGoesOn == sync_return("timer") /\ UNCHANGED <<ops, inb>>

NextLife ==
    \/ startup_connect
    \/ startup_schedule
    \/ shutdown_event
    \/ LifeScan
    \/ LifePush
    \/ LifeWriteBack
    \/ LifeWriteFails
    \/ LifeCancelled
    \/ LifeGoesOn

SpecLife == InitLife /\ [][NextLife]_vars

\* C30: a scheduled pass starts and runs only while the store connection
\* is open: the scheduler runs only then, and no pass is under way while
\* the connection is unset or closed.
PassOnlyWhileStoreOpen ==
    (scen.mode = "life" /\ scen.db # "open") =>
        /\ scen.sched # "running"
        /\ passes["timer"].pc = "idle"

====
